---- MODULE Spec2Model ----
(***************************************************************************)
(* Model of the eevveerryyddaayy entry pipeline: project initialization    *)
(* (handle_start), entry runs (handle_runs) and the README index table.    *)
(*                                                                         *)
(* A Python str is a sequence of one-character strings.  Three symbols     *)
(* stand for one character or one fixed text each: HYPHEN (U+2011) and the *)
(* two index marker comments.  A file is a sequence of lines (without the  *)
(* trailing newline), a directory a set of file names.                     *)
(***************************************************************************)
EXTENDS Integers, Sequences, FiniteSets, TLC

(***************************************************************************)
(* Bounds of the model.                                                    *)
(***************************************************************************)
MaxRuns == 2
MaxDay == 3

(***************************************************************************)
(* utils_constants.py                                                      *)
(***************************************************************************)
HYPHEN == "U+2011"
INDEX_START == "<!-- Index Start -->"
INDEX_END == "<!-- Index End -->"
FIRST_ROW ==
  <<"|", " ", "D", "a", "y", " ", " ", " ", "|", " ", "T", "i", "t", "l", "e", " ", " ", " ", "|", " ", "S", "o", "l", "u", "t", "i", "o", "n", " ", " ", " ", "|", " ", "S", "i", "t", "e", " ", " ", " ", "|", " ", "D", "i", "f", "f", "i", "c", "u", "l", "t", "y", " ", " ", " ", "|">>
SECOND_ROW ==
  <<"|", " ", "-", "-", "-", "-", "-", " ", "|", " ", "-", "-", "-", "-", "-", "-", "-", " ", "|", " ", "-", "-", "-", "-", "-", "-", "-", "-", "-", "-", " ", "|", " ", "-", "-", "-", "-", "-", "-", " ", "|", " ", "-", "-", "-", "-", "-", "-", "-", "-", "-", "-", "-", "-", " ", "|">>

(***************************************************************************)
(* Python str and int primitives.                                          *)
(***************************************************************************)
Digits == <<"0", "1", "2", "3", "4", "5", "6", "7", "8", "9">>
UpperCase ==
  <<"A", "B", "C", "D", "E", "F", "G", "H", "I", "J", "K", "L", "M", "N", "O", "P", "Q", "R", "S", "T", "U", "V", "W", "X", "Y", "Z">>
LowerCase ==
  <<"a", "b", "c", "d", "e", "f", "g", "h", "i", "j", "k", "l", "m", "n", "o", "p", "q", "r", "s", "t", "u", "v", "w", "x", "y", "z">>
\* The horizontal tab, a whitespace character that is no blank
TAB == "\t"
\* The characters of the model in code point order (sorted() compares code points).
CodePoints ==
  <<TAB, " ", "!", "(", ")", "-", ".", "/">> \o Digits \o UpperCase
    \o <<"[", "]", "_">> \o LowerCase \o <<"|", HYPHEN>>

Range(s) == {s[i] : i \in 1..Len(s)}
IndexOf(c, s) == CHOOSE i \in 1..Len(s) : s[i] = c
Code(c) == IndexOf(c, CodePoints)
IsDigit(c) == c \in Range(Digits)
\* str.isspace(), the whitespace of str.strip() and of \s
IsSpace(c) == c = " " \/ c = TAB
Min(a, b) == IF a < b THEN a ELSE b
Max(a, b) == IF a < b THEN b ELSE a

\* s[a:b] with 0 <= a <= b
Slice(s, a, b) == SubSeq(s, a + 1, Min(b, Len(s)))
\* c * n
Repeat(c, n) == [i \in 1..n |-> c]

RECURSIVE DecStr(_)
\* str(n) for n >= 0
DecStr(n) == IF n < 10 THEN <<Digits[n + 1]>> ELSE DecStr(n \div 10) \o <<Digits[(n % 10) + 1]>>
\* f'{n:0wd}': at least w characters, never truncated; the sign counts for the width
ZeroPad(n, w) ==
  IF n >= 0 THEN Repeat("0", w - Len(DecStr(n))) \o DecStr(n)
  ELSE <<"-">> \o Repeat("0", w - 1 - Len(DecStr(-n))) \o DecStr(-n)

\* int(s) accepts the digit strings the file names of the project can hold
IsInt(s) == Len(s) > 0 /\ \A i \in 1..Len(s) : IsDigit(s[i])
RECURSIVE IntOf(_)
IntOf(s) == IF Len(s) = 0 THEN 0
            ELSE 10 * IntOf(SubSeq(s, 1, Len(s) - 1)) + (IndexOf(s[Len(s)], Digits) - 1)

\* str.strip()
RECURSIVE LStrip(_)
LStrip(s) == IF Len(s) > 0 /\ IsSpace(s[1]) THEN LStrip(Tail(s)) ELSE s
RECURSIVE RStrip(_)
RStrip(s) == IF Len(s) > 0 /\ IsSpace(s[Len(s)]) THEN RStrip(SubSeq(s, 1, Len(s) - 1)) ELSE s
Strip(s) == RStrip(LStrip(s))

\* str.split(sep) for a one-character separator
RECURSIVE Split(_, _)
Split(s, sep) ==
  IF \A i \in 1..Len(s) : s[i] # sep THEN <<s>>
  ELSE LET k == CHOOSE i \in 1..Len(s) : s[i] = sep /\ \A j \in 1..(i - 1) : s[j] # sep
       IN <<SubSeq(s, 1, k - 1)>> \o Split(SubSeq(s, k + 1, Len(s)), sep)

\* a < b for str (code point order)
RECURSIVE StrLess(_, _)
StrLess(a, b) ==
  IF Len(b) = 0 THEN FALSE
  ELSE IF Len(a) = 0 THEN TRUE
  ELSE IF a[1] = b[1] THEN StrLess(Tail(a), Tail(b))
  ELSE Code(a[1]) < Code(b[1])

\* sorted(names)[-1]
LastSorted(names) == CHOOSE f \in names : \A g \in names : g = f \/ StrLess(g, f)

(***************************************************************************)
(* datetime.date: a date is its day number (days since 1970-01-01).        *)
(***************************************************************************)
DaysFromCivil(y, m, d) ==
  LET yy == IF m <= 2 THEN y - 1 ELSE y
      era == yy \div 400
      yoe == yy - era * 400
      mp == IF m > 2 THEN m - 3 ELSE m + 9
      doy == (153 * mp + 2) \div 5 + d - 1
      doe == yoe * 365 + yoe \div 4 - yoe \div 100 + doy
  IN era * 146097 + doe - 719468

CivilFromDays(z0) ==
  LET z == z0 + 719468
      era == z \div 146097
      doe == z - era * 146097
      yoe == (doe - doe \div 1460 + doe \div 36524 - doe \div 146096) \div 365
      doy == doe - (365 * yoe + yoe \div 4 - yoe \div 100)
      mp == (5 * doy + 2) \div 153
      d == doy - (153 * mp + 2) \div 5 + 1
      m == IF mp < 10 THEN mp + 3 ELSE mp - 9
      y == yoe + era * 400 + (IF m <= 2 THEN 1 ELSE 0)
  IN [y |-> y, m |-> m, d |-> d]

\* date.strftime(f'%Y{HYPHEN}%m{HYPHEN}%d')
StrfTime(day) ==
  LET c == CivilFromDays(day)
  IN ZeroPad(c.y, 4) \o <<HYPHEN>> \o ZeroPad(c.m, 2) \o <<HYPHEN>> \o ZeroPad(c.d, 2)

\* datetime.strptime(s, f'%Y{HYPHEN}%m{HYPHEN}%d').date(): the day number, or -1 for ValueError
StrpTime(s) ==
  IF /\ Len(s) = 10
     /\ s[5] = HYPHEN /\ s[8] = HYPHEN
     /\ IsInt(SubSeq(s, 1, 4)) /\ IsInt(SubSeq(s, 6, 7)) /\ IsInt(SubSeq(s, 9, 10))
  THEN LET y == IntOf(SubSeq(s, 1, 4))
           m == IntOf(SubSeq(s, 6, 7))
           d == IntOf(SubSeq(s, 9, 10))
           n == DaysFromCivil(y, m, d)
       IN IF m \in 1..12 /\ d >= 1 /\ StrfTime(n) = s THEN n ELSE -1
  ELSE -1

(***************************************************************************)
(* utils_runs.py: one row of the index table.                              *)
(***************************************************************************)
Keys == <<"day", "title", "solution", "site", "difficulty", "nb">>
NoWidths == [k \in Range(Keys) |-> 0]
EmptyRow == [k \in Range(Keys) |-> <<>>]

RECURSIVE Concat(_)
\* ''.join(parts)
Concat(parts) == IF Len(parts) = 0 THEN <<>> ELSE Head(parts) \o Concat(Tail(parts))

NonEmpty(seg) == Len(seg) > 0

\* The keys a row is read or written with: 'nb' only when NB = 1
RowKeys(nb_loc) == IF nb_loc = 0 THEN SubSeq(Keys, 1, 5) ELSE Keys

get_target_line_dict(nb_loc, line) ==
  LET parts == Split(line, "|")
      segments == SelectSeq([i \in 1..Len(parts) |-> Strip(parts[i])], NonEmpty)
      keys == RowKeys(nb_loc)
  IN [k \in Range(Keys) |->
        IF \E i \in 1..Len(keys) : keys[i] = k /\ i <= Len(segments)
        THEN segments[IndexOf(k, keys)]
        ELSE <<>>]

get_target_line_updated(is_second_line, nb_local, widths, data) ==
  LET keys == RowKeys(nb_local)
      Cell(k) == <<" ">> \o data[k]
                   \o Repeat(IF is_second_line THEN "-" ELSE " ", widths[k] - Len(data[k]))
                   \o <<" ", "|">>
  IN <<"|">> \o Concat([i \in 1..Len(keys) |-> Cell(keys[i])])

(***************************************************************************)
(* handle_runs.py                                                          *)
(***************************************************************************)
Contains(line, marker) == marker \in Range(line)

\* list.insert(idx, x) on a 0-based index, with Python's clamping
PyInsert(lines, idx, x) ==
  LET i0 == IF idx < 0 THEN Max(idx + Len(lines), 0) ELSE Min(idx, Len(lines))
  IN SubSeq(lines, 1, i0) \o <<x>> \o SubSeq(lines, i0 + 1, Len(lines))

\* The 0-based index of the last line holding the marker, -1 when there is none
LastLineWith(lines, marker) ==
  IF \E i \in 1..Len(lines) : Contains(lines[i], marker)
  THEN (CHOOSE i \in 1..Len(lines) :
          /\ Contains(lines[i], marker)
          /\ \A j \in (i + 1)..Len(lines) : ~Contains(lines[j], marker)) - 1
  ELSE -1

\* An Optional value: <<>> is None, <<v>> is v
None == <<>>
Some(v) == <<v>>

\* The step raises: int() or strptime() on a text it cannot read, or 'Invalid configuration'
SeqError ==
  [err |-> TRUE, raised |-> "ValueError", full |-> <<>>, main_str |-> <<>>,
   last |-> None, next |-> None]
\* os.listdir(SOLUTIONS_DIR) in validate_project raises before handle_runs is called
SeqNoDir == [SeqError EXCEPT !.raised = "FileNotFoundError"]

\* A variant of FullSequence in which the entry after a later one is an error
FullSequenceStrict(parsed) ==
  IF parsed.last > parsed.next
    THEN [SeqError EXCEPT !.last = Some(parsed.last), !.next = Some(parsed.next)]
  ELSE [err |-> FALSE, raised |-> "",
        full |-> IF parsed.last = parsed.next
                   THEN parsed.main_str \o <<"_">> \o ZeroPad(parsed.suffix + 1, 2)
                 ELSE parsed.main_str \o <<"_", "0", "1">>,
        main_str |-> parsed.main_str,
        last |-> Some(parsed.last),
        next |-> Some(parsed.next)]

\* Handle full sequence: the suffix after the last stored entry; when that entry is
\* later than today a note is printed and seq_next_full_str keeps its initial ''
FullSequence(parsed) ==
  [err |-> FALSE, raised |-> "",
   full |-> IF parsed.last = parsed.next
              THEN parsed.main_str \o <<"_">> \o ZeroPad(parsed.suffix + 1, 2)
            ELSE IF parsed.last < parsed.next
              THEN parsed.main_str \o <<"_", "0", "1">>
            ELSE <<>>,
   main_str |-> parsed.main_str,
   last |-> Some(parsed.last),
   next |-> Some(parsed.next)]

\* A variant of handle_runs_prep_seq that takes the first-entry branch without
\* looking at the notation or at the stored files
handle_runs_prep_seq_first(files, proj_start, seq_notation_loc, now) ==
  [err |-> FALSE, raised |-> "", full |-> <<"0", "0", "1", "_", "0", "1">>,
   main_str |-> <<"0", "0", "1">>, last |-> None, next |-> None]

handle_runs_prep_seq(files, proj_start, seq_notation_loc, now) ==
  IF files # {} THEN
    LET file_last == LastSorted(files)
        parsed ==
          IF seq_notation_loc = 0 THEN
            IF /\ IsInt(Slice(file_last, 0, 3))
               /\ IsInt(Slice(file_last, 4, 6))
               /\ StrpTime(proj_start) # -1
            THEN [err |-> FALSE,
                  last |-> IntOf(Slice(file_last, 0, 3)),
                  suffix |-> IntOf(Slice(file_last, 4, 6)),
                  next |-> (now - StrpTime(proj_start)) + 1,
                  main_str |-> ZeroPad((now - StrpTime(proj_start)) + 1, 3)]
            ELSE [err |-> TRUE]
          ELSE IF seq_notation_loc = 1 THEN
            IF /\ StrpTime(Slice(file_last, 0, 10)) # -1
               /\ IsInt(Slice(file_last, 11, 13))
            THEN [err |-> FALSE,
                  last |-> StrpTime(Slice(file_last, 0, 10)),
                  suffix |-> IntOf(Slice(file_last, 11, 13)),
                  next |-> now,
                  main_str |-> StrfTime(now)]
            ELSE [err |-> TRUE]
          ELSE [err |-> TRUE]
    IN IF parsed.err THEN SeqError ELSE FullSequence(parsed)
  ELSE
    IF seq_notation_loc = 0 THEN
      [err |-> FALSE, raised |-> "", full |-> <<"0", "0", "1", "_", "0", "1">>,
       main_str |-> <<"0", "0", "1">>, last |-> None, next |-> None]
    ELSE IF seq_notation_loc = 1 THEN
      [err |-> FALSE, raised |-> "", full |-> StrfTime(now) \o <<"_", "0", "1">>,
       main_str |-> StrfTime(now), last |-> None, next |-> None]
    ELSE SeqError

Lower(c) == IF c \in Range(UpperCase) THEN LowerCase[IndexOf(c, UpperCase)] ELSE c
\* re.sub(r'[^a-z0-9\s-]', '', ...) keeps these characters
SlugKeeps(c) == c \in Range(LowerCase) \/ IsDigit(c) \/ IsSpace(c) \/ c = "-"
SlugChar(c) == IF c = " " \/ c = "-" THEN "_" ELSE c

handle_runs_prep_file(title, seq_full) ==
  LET lowered == [i \in 1..Len(title) |-> Lower(title[i])]
      kept == SelectSeq(lowered, SlugKeeps)
      replaced == [i \in 1..Len(kept) |-> SlugChar(kept[i])]
  IN seq_full \o <<"_">> \o Strip(replaced) \o <<".", "m", "d">>

GapTail(nb) ==
  IF nb = 1
  THEN <<"|", " ", " ", " ", " ", "|", " ", " ", " ", " ", "|", " ", " ", " ", " ", "|", " ", " ", " ", " ", "|", " ", " ", " ", " ", "|">>
  ELSE <<"|", " ", " ", " ", " ", "|", " ", " ", " ", " ", "|", " ", " ", " ", " ", "|", " ", " ", " ", " ", "|">>
\* f'| {seq_gap_str}   {gap_line}'
GapLine(seq_gap_str, nb) == <<"|", " ">> \o seq_gap_str \o <<" ", " ", " ">> \o GapTail(nb)

\* The row of a skipped value: the number or the date, every data column blank
GapRow(v, seq_notation, nb) ==
  GapLine(IF seq_notation = 0 THEN ZeroPad(v, 3) ELSE StrfTime(v), nb)

RECURSIVE InsertGapsAtTarget(_, _, _, _, _, _, _)
\* A variant of InsertGaps that inserts every line at target_line itself
InsertGapsAtTarget(lines, target_line, count, from, to, seq_notation, nb) ==
  IF from >= to THEN lines
  ELSE InsertGapsAtTarget(PyInsert(lines, target_line, GapRow(from, seq_notation, nb)),
                          target_line, count + 1, from + 1, to, seq_notation, nb)

RECURSIVE InsertGaps(_, _, _, _, _, _, _)
\* The insert loop: one line per value from..(to - 1), at target_line + count
InsertGaps(lines, target_line, count, from, to, seq_notation, nb) ==
  IF from >= to THEN lines
  ELSE InsertGaps(PyInsert(lines, target_line + count, GapRow(from, seq_notation, nb)),
                  target_line, count + 1, from + 1, to, seq_notation, nb)

\* The lines of README.md after the gap rows are added
handle_runs_prep_index(lines, nb, seq_notation, seq_last, seq_next) ==
  IF seq_last # None \/ seq_next # None THEN
    IF seq_next[1] - seq_last[1] > 1
    THEN InsertGaps(lines, LastLineWith(lines, INDEX_END), 0,
                    seq_last[1] + 1, seq_next[1], seq_notation, nb)
    ELSE lines
  ELSE lines

\* A variant of PrepareIndex that fills the gaps whatever SEQ_SPARSE says
PrepareIndexAlways(lines, seq_sparse, nb, seq_notation, seq_last, seq_next) ==
  handle_runs_prep_index(lines, nb, seq_notation, seq_last, seq_next)

\* Prepare Index: the gap rows are added in sparse mode only
PrepareIndex(lines, seq_sparse, nb, seq_notation, seq_last, seq_next) ==
  IF seq_sparse = 1
  THEN handle_runs_prep_index(lines, nb, seq_notation, seq_last, seq_next)
  ELSE lines

SolutionLink(filename) ==
  <<"[", "S", "o", "l", "u", "t", "i", "o", "n", "]", "(", "s", "o", "l", "u", "t", "i", "o", "n", "s", "/">>
    \o filename \o <<")">>
TitleLink(title, url) == <<"[">> \o title \o <<"]", "(">> \o url \o <<")">>

\* A variant of handle_runs_prep_package that puts the full sequence ID in 'day'
handle_runs_prep_package_full_day(seq, seq_full, new_package, filename) ==
  [package |->
     [day |-> seq_full,
      title |-> new_package.title,
      title_index |-> TitleLink(new_package.title, new_package.url),
      solution |-> SolutionLink(filename),
      site |-> new_package.site,
      difficulty |-> new_package.difficulty,
      nb |-> new_package.nb,
      seq_full |-> seq_full,
      filename |-> filename],
   package_widths |->
     [day |-> Len(seq_full) + 2,
      title |-> Len(TitleLink(new_package.title, new_package.url)) + 2,
      solution |-> Len(SolutionLink(filename)) + 2,
      site |-> Len(new_package.site) + 2,
      difficulty |-> Len(new_package.difficulty) + 2,
      nb |-> Len(new_package.nb) + 2]]

\* The 'package' and 'package_widths' dictionaries after the update
handle_runs_prep_package(seq, seq_full, new_package, filename) ==
  [package |->
     [day |-> seq,
      title |-> new_package.title,
      title_index |-> TitleLink(new_package.title, new_package.url),
      solution |-> SolutionLink(filename),
      site |-> new_package.site,
      difficulty |-> new_package.difficulty,
      nb |-> new_package.nb,
      seq_full |-> seq_full,
      filename |-> filename],
   package_widths |->
     [day |-> Len(seq) + 2,
      title |-> Len(TitleLink(new_package.title, new_package.url)) + 2,
      solution |-> Len(SolutionLink(filename)) + 2,
      site |-> Len(new_package.site) + 2,
      difficulty |-> Len(new_package.difficulty) + 2,
      nb |-> Len(new_package.nb) + 2]]

\* A variant of UpdatedWidths that keeps the widths of the new entry
UpdatedWidthsOfEntry(package_widths, cols_width) == package_widths

\* UPDATE config_cols_widths: the widths the run works with and persists
UpdatedWidths(package_widths, cols_width) ==
  [k \in Range(Keys) |->
     IF package_widths[k] < cols_width[k] THEN cols_width[k] ELSE package_widths[k]]
\* change_old_lines
ChangeOldLines(package_widths, cols_width) ==
  IF \E k \in Range(Keys) : package_widths[k] < cols_width[k] THEN 1 ELSE 0

\* The row of the new entry: get_target_line_updated(False, config, package, data=None)
NewEntryLine(nb, widths, package) ==
  get_target_line_updated(FALSE, nb, widths,
    [day |-> package.day, title |-> package.title, solution |-> package.solution,
     site |-> package.site, difficulty |-> package.difficulty, nb |-> package.nb])

\* UPDATE TARGET LINES: every line between the markers parsed and rendered again
RewriteLines(lines, start_line, end_line, nb, widths) ==
  [i \in 1..Len(lines) |->
     IF i - 1 >= start_line + 1 /\ i - 1 < end_line
     THEN get_target_line_updated(i - 1 = start_line + 2, nb, widths,
                                  get_target_line_dict(nb, lines[i]))
     ELSE lines[i]]

\* A variant of UpdateIndex that adds the new line at the end of the file
UpdateIndexAppend(lines, nb, widths, change_old_lines, new_entry) ==
  LET start_line == LastLineWith(lines, INDEX_START)
      end_line == LastLineWith(lines, INDEX_END)
  IN IF end_line = -1 \/ (change_old_lines = 1 /\ start_line = -1)
     THEN [err |-> TRUE, lines |-> lines]
     ELSE [err |-> FALSE,
           lines |-> Append(IF change_old_lines = 1
                            THEN RewriteLines(lines, start_line, end_line, nb, widths)
                            ELSE lines,
                            new_entry)]

\* UPDATE INDEX: the lines of README.md after the run, err when a marker is missing
UpdateIndex(lines, nb, widths, change_old_lines, new_entry) ==
  LET start_line == LastLineWith(lines, INDEX_START)
      end_line == LastLineWith(lines, INDEX_END)
  IN IF end_line = -1 \/ (change_old_lines = 1 /\ start_line = -1)
     THEN [err |-> TRUE, lines |-> lines]
     ELSE [err |-> FALSE,
           lines |-> PyInsert(IF change_old_lines = 1
                              THEN RewriteLines(lines, start_line, end_line, nb, widths)
                              ELSE lines,
                              end_line, new_entry)]

(***************************************************************************)
(* utils_package.py: the two dictionaries PackageManager is built with and *)
(* the two its reset() goes back to.                                       *)
(***************************************************************************)
PackageKeys ==
  {"day", "url", "title", "title_index", "site", "difficulty", "problem",
   "submitted_solution", "site_solution", "solution", "notes", "nb", "nb_index",
   "seq_full", "filename", "lastline"}
InitialPackageKeys ==
  {"day", "url", "title", "title_index", "site", "site_index", "difficulty", "problem",
   "submitted_solution", "site_solution", "notes", "nb", "seq_full", "filename",
   "lastline"}
\* self._data of __init__
PackageData ==
  [package |-> [k \in PackageKeys |-> IF k = "lastline" THEN <<"\n">> ELSE <<>>],
   package_widths |-> NoWidths]
\* self._initial_state of __init__
PackageInitialState ==
  [package |-> [k \in InitialPackageKeys |-> IF k = "lastline" THEN <<"\n">> ELSE <<>>],
   package_col_widths |-> NoWidths]

(***************************************************************************)
(* The project on disk, the clock and the record of the runs.              *)
(***************************************************************************)
VARIABLES
  PROJ_START,     \* config_proj.py: '' until the project is initialized
  NB,             \* config_index.py
  NB_NAME,
  SEQ_NOTATION,
  SEQ_SPARSE,
  COLS_WIDTH,
  solutions_dir,  \* whether SOLUTIONS_DIR exists
  solutions,      \* the file names in SOLUTIONS_DIR
  readme,         \* the lines of README.md
  today,          \* datetime.now().date()
  log,            \* one record per entry submission, oldest first
  row_data,       \* a row as a dictionary: 'data' of get_target_line_updated
  row_widths,     \* 'package_widths', the widths the row is rendered at
  row_line,       \* the rendered row: 'line' of get_target_line_dict
  row_results,    \* what get_target_line_dict returns for the rendered row
  file_title,     \* 'title' of _handle_runs_prep_file
  file_seq_full,  \* 'seq_full' of _handle_runs_prep_file
  file_name,      \* what _handle_runs_prep_file returns for them
  pm_data,            \* PackageManager._data: dictionary name -> dictionary
  pm_initial_state,   \* PackageManager._initial_state
  pm_alias,           \* the names whose dictionary in _data is the very object held
                      \* by _initial_state
  pm_ops,             \* the calls made on the PackageManager, oldest first
  pc,             \* per caller: the step of handle_runs its run is about to take
  loc             \* per caller: the local values of its run

projvars == <<PROJ_START, NB, NB_NAME, SEQ_NOTATION, SEQ_SPARSE, COLS_WIDTH,
              solutions_dir, solutions, readme, today, log>>
projvars_but_log == <<PROJ_START, NB, NB_NAME, SEQ_NOTATION, SEQ_SPARSE, COLS_WIDTH,
                      solutions_dir, solutions, readme, today>>
rowvars == <<row_data, row_widths, row_line, row_results>>
filevars == <<file_title, file_seq_full, file_name>>
pmvars == <<pm_data, pm_initial_state, pm_alias, pm_ops>>
stepvars == <<pc, loc>>
vars == <<projvars, rowvars, filevars, pmvars, stepvars>>

\* The callers that can submit an entry
Callers == {1, 2}
NoEntry == [title |-> <<>>, url |-> <<>>, site |-> <<>>, difficulty |-> <<>>, nb |-> <<>>]
\* The local values of handle_runs before its first statement
LocIdle ==
  [data |-> NoEntry,
   config |-> [PROJ_START |-> <<>>, NB |-> 0, SEQ_NOTATION |-> 0, SEQ_SPARSE |-> 0,
               COLS_WIDTH |-> NoWidths],
   now |-> 0,
   files_before |-> {},
   readme_before |-> <<>>,
   seq |-> [err |-> FALSE, raised |-> "", full |-> <<>>, main_str |-> <<>>,
            last |-> None, next |-> None],
   filename |-> <<>>,
   pkg |-> handle_runs_prep_package(<<>>, <<>>, NoEntry, <<>>),
   widths |-> NoWidths,
   change_old_lines |-> 0,
   lines_read |-> <<>>,
   lines |-> <<>>,
   done |-> <<>>]
\* No submission is being processed
NoRun ==
  /\ pc = [c \in Callers |-> "idle"]
  /\ loc = [c \in Callers |-> LocIdle]

\* PackageManager()
PackageNew ==
  /\ pm_data = PackageData
  /\ pm_initial_state = PackageInitialState
  /\ pm_alias = {}
  /\ pm_ops = <<>>

NB_NAME_DEFAULT == <<"N", "B">>
COLS_WIDTH_DEFAULT ==
  [day |-> 5, title |-> 7, solution |-> 10, site |-> 6, difficulty |-> 12, nb |-> 1]

\* README.template.md: the index table as the project starts with it
ReadmeTemplate == << <<"#">>, <<INDEX_START>>, FIRST_ROW, SECOND_ROW, <<INDEX_END>> >>
\* A README.md that holds no index table
ReadmeNoIndex == << <<"#">> >>

FirstDay == DaysFromCivil(2025, 2, 26)

\* The values the start form can send; 2 is an int that is no notation
SeqNotations == {0, 1, 2}
NbNames == {NB_NAME_DEFAULT, <<"N", "o", "t", "e", "s">>}
\* The entries the entry form can send
Entries ==
  { [title |-> <<"A", "-", "b">>, url |-> <<"u">>, site |-> <<"S", "i", "t", "e">>,
     difficulty |-> <<"E", "a", "s", "y">>, nb |-> <<"T", "B", "D">>],
    [title |-> <<"T", "w", "o", " ", "S", "u", "m", "!">>, url |-> <<"u">>,
     site |-> <<"L", "e", "e", "t", "C", "o", "d", "e">>,
     difficulty |-> <<"M", "e", "d", "i", "u", "m", "-", "H", "a", "r", "d">>,
     nb |-> <<"n">>] }

Init ==
  /\ PROJ_START = <<>>
  /\ NB = 0
  /\ NB_NAME = NB_NAME_DEFAULT
  /\ SEQ_NOTATION = 0
  /\ SEQ_SPARSE = 0
  /\ COLS_WIDTH = COLS_WIDTH_DEFAULT
  /\ solutions_dir \in BOOLEAN
  /\ solutions = {}
  /\ readme \in {ReadmeTemplate, ReadmeNoIndex}
  /\ today = FirstDay
  /\ log = <<>>
  /\ row_data = EmptyRow
  /\ row_widths = NoWidths
  /\ row_line = None
  /\ row_results = None
  /\ file_title = <<>>
  /\ file_seq_full = <<>>
  /\ file_name = None
  /\ PackageNew
  /\ NoRun

(***************************************************************************)
(* utils_validation.py                                                     *)
(***************************************************************************)
\* os.listdir(SOLUTIONS_DIR) raises when the directory is missing
ValidateRaises == ~solutions_dir
\* A variant of validate_project that takes a project without entry files for a
\* new one, whatever its start date
validate_project_files ==
  LET is_solutions_files == solutions = {}
      is_seq_date == PROJ_START # <<>>
  IN is_seq_date /\ ~is_solutions_files

\* validate_project(): is_initialized
validate_project ==
  LET is_solutions == TRUE
      is_solutions_files == solutions = {}
      is_seq_date == PROJ_START # <<>>
  IN IF ~is_seq_date /\ ~is_solutions /\ ~is_solutions_files THEN FALSE
     ELSE IF ~is_seq_date /\ ~is_solutions THEN FALSE
     ELSE IF ~is_seq_date THEN FALSE
     ELSE TRUE

(***************************************************************************)
(* handle_start.py                                                         *)
(***************************************************************************)
\* The header and the separator of the six-column table
HeaderLabels(nb_name) == FIRST_ROW \o <<" ">> \o nb_name \o <<" ", " ", " ", "|">>
HeaderSep(nb_name) == SECOND_ROW \o <<" ">> \o Repeat("-", Len(nb_name) + 2) \o <<" ", "|">>

\* HANDLE README CHANGES - NB: the two header lines replaced, the rows after them emptied
handle_start_readme(lines, nb_name, changes) ==
  IF "NB" \in changes /\ "NB_NAME" \in changes THEN
    LET start_line == CHOOSE i \in 1..Len(lines) :
                        /\ Contains(lines[i], INDEX_START)
                        /\ \A j \in 1..(i - 1) : ~Contains(lines[j], INDEX_START)
        end_line == CHOOSE i \in 1..Len(lines) :
                        /\ Contains(lines[i], INDEX_END)
                        /\ \A j \in 1..(i - 1) : ~Contains(lines[j], INDEX_END)
        kept == {i \in 1..Len(lines) : ~(i >= start_line + 3 /\ i < end_line)}
        set == [i \in 1..Len(lines) |->
                  IF i = start_line + 1 THEN HeaderLabels(nb_name)
                  ELSE IF i = start_line + 2 THEN HeaderSep(nb_name)
                  ELSE lines[i]]
    IN SelectSeq([i \in 1..Len(lines) |-> IF i \in kept THEN set[i] ELSE <<>>], NonEmpty)
  ELSE lines

\* The keys of package_changes: the settings the start form changes
PackageChanges(nb, nb_name, seq_notation, seq_sparse) ==
  {k \in {"NB", "NB_NAME", "SEQ_NOTATION", "SEQ_SPARSE"} :
     \/ k = "NB" /\ NB # nb
     \/ k = "NB_NAME" /\ NB_NAME # nb_name
     \/ k = "SEQ_NOTATION" /\ SEQ_NOTATION # seq_notation
     \/ k = "SEQ_SPARSE" /\ SEQ_SPARSE # seq_sparse}

\* handle_start(config, package_changes), README.md being README.template.md by then
handle_start(nb, nb_name, seq_notation, seq_sparse) ==
  LET changes == PackageChanges(nb, nb_name, seq_notation, seq_sparse)
  IN /\ PROJ_START' = StrfTime(today)
     /\ solutions_dir' = TRUE
     /\ NB' = nb
     /\ NB_NAME' = nb_name
     /\ SEQ_NOTATION' = seq_notation
     /\ SEQ_SPARSE' = seq_sparse
     /\ readme' = IF "NB" \in changes
                  THEN handle_start_readme(ReadmeTemplate, nb_name, changes)
                  ELSE ReadmeTemplate
     /\ UNCHANGED <<COLS_WIDTH, solutions, today, log, rowvars, filevars, pmvars, stepvars>>

\* What eevveerryyddaayy(..., source=0) gives back in the current state: the
\* exception of validate_project, 0 for an initialized project, 1 after start_project
StartReturns ==
  IF ValidateRaises THEN "FileNotFoundError"
  ELSE IF validate_project THEN "0"
  ELSE "1"

\* eevveerryyddaayy(..., source=0): returns 0 when the project is initialized, and
\* nothing is done when validate_project raises
Start ==
  \/ /\ ValidateRaises \/ validate_project
     /\ UNCHANGED vars
  \/ /\ ~ValidateRaises /\ ~validate_project
     /\ \E nb \in {0, 1}, nb_name \in NbNames, seq_notation \in SeqNotations,
           seq_sparse \in {0, 1} :
          handle_start(nb, nb_name, seq_notation, seq_sparse)

(***************************************************************************)
(* handle_runs.py: handle_runs, called for eevveerryyddaayy(..., source=3) *)
(***************************************************************************)
RunRecord(data, raised, seq, filename, package_widths, change_old_lines) ==
  [day |-> today, data |-> data,
   status |-> IF raised = "" THEN "ok" ELSE "error", raised |-> raised,
   seq_full |-> seq.full, seq_main_str |-> seq.main_str,
   seq_last |-> seq.last, seq_next |-> seq.next,
   filename |-> filename,
   package_widths |-> package_widths,
   change_old_lines |-> change_old_lines,
   proj_start |-> PROJ_START,
   seq_notation |-> SEQ_NOTATION,
   files_before |-> solutions,
   widths_before |-> COLS_WIDTH,
   readme_before |-> readme,
   seq_sparse |-> SEQ_SPARSE]

\* handle_runs(config, package, data, today), from its first line to its return or
\* to the exception that ends it
handle_runs(data) ==
  /\ UNCHANGED <<PROJ_START, NB, NB_NAME, SEQ_NOTATION, SEQ_SPARSE, solutions_dir, today, rowvars, filevars, pmvars, stepvars>>
  /\ \E seq \in {IF ValidateRaises THEN SeqNoDir
                ELSE handle_runs_prep_seq(solutions, PROJ_START, SEQ_NOTATION, today)} :
        IF seq.err
        THEN /\ log' = Append(log, RunRecord(data, seq.raised, seq, <<>>, NoWidths, 0))
             /\ UNCHANGED <<COLS_WIDTH, solutions, readme>>
        ELSE
          \E filename \in {handle_runs_prep_file(data.title, seq.full)} :
          \E gapped \in {PrepareIndex(readme, SEQ_SPARSE, NB, SEQ_NOTATION,
                                      seq.last, seq.next)} :
          \E pkg \in {handle_runs_prep_package(seq.main_str, seq.full, data, filename)} :
          \E widths \in {UpdatedWidths(pkg.package_widths, COLS_WIDTH)} :
          \E change_old_lines \in {ChangeOldLines(pkg.package_widths, COLS_WIDTH)} :
          \E new_entry \in {NewEntryLine(NB, widths, pkg.package)} :
          \E index \in {UpdateIndex(gapped, NB, widths, change_old_lines, new_entry)} :
             /\ solutions' = solutions \cup {filename}
             /\ readme' = index.lines
             /\ COLS_WIDTH' = IF index.err THEN COLS_WIDTH ELSE widths
             /\ log' = Append(log, RunRecord(data, IF index.err THEN "TypeError" ELSE "",
                                             seq, filename, pkg.package_widths,
                                             change_old_lines))

\* eevveerryyddaayy(form_inputs, source=3)
Run(data) ==
  /\ Len(log) < MaxRuns
  /\ handle_runs(data)

\* A day passes
Tick ==
  /\ today < FirstDay + MaxDay
  /\ today' = today + 1
  /\ UNCHANGED <<PROJ_START, NB, NB_NAME, SEQ_NOTATION, SEQ_SPARSE, COLS_WIDTH,
                 solutions_dir, solutions, readme, log, rowvars, filevars, pmvars, stepvars>>

Next ==
  \/ Start
  \/ \E data \in Entries : Run(data)
  \/ Tick

Spec == Init /\ [][Next]_vars

(***************************************************************************)
(* The same project in an environment that misbehaves: the clock of the    *)
(* machine is set back, and README.md is edited by hand and loses a marker *)
(* line.                                                                   *)
(***************************************************************************)
\* datetime.now() returns an earlier day than before
ClockBack ==
  /\ PROJ_START # <<>>
  /\ today > FirstDay
  /\ today' = today - 1
  /\ UNCHANGED <<PROJ_START, NB, NB_NAME, SEQ_NOTATION, SEQ_SPARSE, COLS_WIDTH,
                 solutions_dir, solutions, readme, log, rowvars, filevars, pmvars, stepvars>>

\* The lines without the marker line
WithoutMarker(lines, marker) ==
  LET Keeps(l) == ~Contains(l, marker)
  IN SelectSeq(lines, Keeps)

\* README.md of an initialized project, until then intact, loses the line of one
\* marker before the first entry is submitted
EditReadme ==
  /\ PROJ_START # <<>>
  /\ log = <<>>
  /\ LastLineWith(readme, INDEX_START) # -1
  /\ LastLineWith(readme, INDEX_END) # -1
  /\ \E marker \in {INDEX_START, INDEX_END} : readme' = WithoutMarker(readme, marker)
  /\ UNCHANGED <<PROJ_START, NB, NB_NAME, SEQ_NOTATION, SEQ_SPARSE, COLS_WIDTH,
                 solutions_dir, solutions, today, log, rowvars, filevars, pmvars, stepvars>>

NextFaults ==
  \/ Next
  \/ ClockBack
  \/ EditReadme

SpecFaults == Init /\ [][NextFaults]_vars

(***************************************************************************)
(* A project of numbered or dated entries in its third year: it was        *)
(* started LateDays days ago and has no entry yet.                         *)
(***************************************************************************)
LateDays == 998
MaxLateRuns == 4

InitLate ==
  /\ PROJ_START = StrfTime(FirstDay - LateDays)
  /\ NB = 0
  /\ NB_NAME = NB_NAME_DEFAULT
  /\ SEQ_NOTATION \in {0, 1}
  /\ SEQ_SPARSE = 0
  /\ COLS_WIDTH = COLS_WIDTH_DEFAULT
  /\ solutions_dir = TRUE
  /\ solutions = {}
  /\ readme = ReadmeTemplate
  /\ today = FirstDay
  /\ log = <<>>
  /\ row_data = EmptyRow
  /\ row_widths = NoWidths
  /\ row_line = None
  /\ row_results = None
  /\ file_title = <<>>
  /\ file_seq_full = <<>>
  /\ file_name = None
  /\ PackageNew
  /\ NoRun

RunLate(data) ==
  /\ Len(log) < MaxLateRuns
  /\ handle_runs(data)

NextLate ==
  \/ \E data \in Entries : RunLate(data)
  \/ Tick

SpecLate == InitLate /\ [][NextLate]_vars

(***************************************************************************)
(* handle_runs step by step: each access to the solutions directory, to    *)
(* README.md and to config_index.py is a step of its own, so that a run    *)
(* can be interrupted between two of them and the runs of two callers can  *)
(* interleave.                                                             *)
(***************************************************************************)
MaxStepRuns == 3

\* A variant of AfterStep that updates the index before it creates the file
AfterStepIndexFirst(step, gaps) ==
  CASE step = "prep_seq" -> IF gaps THEN "prep_index_read" ELSE "prep_package"
    [] step = "prep_index_read" -> "prep_index_write"
    [] step = "prep_index_write" -> "prep_package"
    [] step = "prep_package" -> "index_read"
    [] step = "index_read" -> "index_write"
    [] step = "index_write" -> "files_created"
    [] step = "files_created" -> "close"
    [] step = "close" -> "idle"

\* The statement that follows a step in _handle_runs_prep, _handle_runs_implement
\* and handle_runs; gaps: _handle_runs_prep_index is called and opens README.md
AfterStep(step, gaps) ==
  CASE step = "prep_seq" -> IF gaps THEN "prep_index_read" ELSE "prep_package"
    [] step = "prep_index_read" -> "prep_index_write"
    [] step = "prep_index_write" -> "prep_package"
    [] step = "prep_package" -> "files_created"
    [] step = "files_created" -> "index_read"
    [] step = "index_read" -> "index_write"
    [] step = "index_write" -> "close"
    [] step = "close" -> "idle"

\* The record of a run that ended, with the steps it completed and the README.md
\* lines its index update read
StepRecord(l, raised) ==
  [done |-> l.done, lines_read |-> l.lines_read]
    @@ [RunRecord(l.data, raised, l.seq, l.filename, l.pkg.package_widths,
                  l.change_old_lines)
          EXCEPT !.day = l.now,
                 !.proj_start = l.config.PROJ_START,
                 !.seq_notation = l.config.SEQ_NOTATION,
                 !.seq_sparse = l.config.SEQ_SPARSE,
                 !.files_before = l.files_before,
                 !.widths_before = l.config.COLS_WIDTH,
                 !.readme_before = l.readme_before]

\* The run of caller c goes on with the local values l
Goes(c, step, gaps, l) ==
  /\ pc' = [pc EXCEPT ![c] = AfterStep(step, gaps)]
  /\ loc' = [loc EXCEPT ![c] = l]
  /\ UNCHANGED log
\* The run of caller c ends, by its return or by an exception
Ends(c, l, raised) ==
  /\ pc' = [pc EXCEPT ![c] = "idle"]
  /\ loc' = [loc EXCEPT ![c] = LocIdle]
  /\ log' = Append(log, StepRecord(l, raised))

Active == {c \in Callers : pc[c] # "idle"}

\* run_project: config = ConfigManager(); today = datetime.now()
Begin(c, data) ==
  /\ pc[c] = "idle"
  /\ Len(log) + Cardinality(Active) < MaxStepRuns
  /\ \E l \in {[LocIdle EXCEPT
                   !.data = data,
                   !.config = [PROJ_START |-> PROJ_START, NB |-> NB,
                               SEQ_NOTATION |-> SEQ_NOTATION, SEQ_SPARSE |-> SEQ_SPARSE,
                               COLS_WIDTH |-> COLS_WIDTH],
                   !.now = today,
                   !.readme_before = readme]} :
       IF ValidateRaises
       THEN Ends(c, [l EXCEPT !.seq = SeqNoDir], "FileNotFoundError")
       ELSE /\ pc' = [pc EXCEPT ![c] = "prep_seq"]
            /\ loc' = [loc EXCEPT ![c] = l]
            /\ UNCHANGED log
  /\ UNCHANGED <<projvars_but_log, rowvars, filevars, pmvars>>

\* _handle_runs_prep_seq, which scans the solutions directory, and
\* _handle_runs_prep_file
PrepSeq(c) ==
  /\ pc[c] = "prep_seq"
  /\ \E l \in {loc[c]} :
     \E seq \in {handle_runs_prep_seq(solutions, l.config.PROJ_START,
                                       l.config.SEQ_NOTATION, l.now)} :
       IF seq.err
       THEN Ends(c, [l EXCEPT !.seq = seq, !.files_before = solutions], seq.raised)
       ELSE Goes(c, "prep_seq",
                 l.config.SEQ_SPARSE = 1 /\ (seq.last # None \/ seq.next # None),
                 [l EXCEPT !.seq = seq,
                           !.files_before = solutions,
                           !.filename = handle_runs_prep_file(l.data.title, seq.full),
                           !.done = Append(l.done, "sequence")])
  /\ UNCHANGED <<projvars_but_log, rowvars, filevars, pmvars>>

\* _handle_runs_prep_index: lines = file.readlines() and the inserts
PrepIndexRead(c) ==
  /\ pc[c] = "prep_index_read"
  /\ \E l \in {loc[c]} :
       Goes(c, "prep_index_read", TRUE,
            [l EXCEPT !.lines = handle_runs_prep_index(readme, l.config.NB,
                                                       l.config.SEQ_NOTATION,
                                                       l.seq.last, l.seq.next)])
  /\ UNCHANGED <<projvars_but_log, rowvars, filevars, pmvars>>

\* _handle_runs_prep_index: file.writelines(lines)
PrepIndexWrite(c) ==
  /\ pc[c] = "prep_index_write"
  /\ readme' = loc[c].lines
  /\ Goes(c, "prep_index_write", TRUE, [loc[c] EXCEPT !.done = Append(@, "gaps")])
  /\ UNCHANGED <<PROJ_START, NB, NB_NAME, SEQ_NOTATION, SEQ_SPARSE, COLS_WIDTH,
                 solutions_dir, solutions, today, rowvars, filevars, pmvars>>

\* _handle_runs_prep_package: the row of the entry and the widths it needs
PrepPackage(c) ==
  /\ pc[c] = "prep_package"
  /\ \E l \in {loc[c]} :
       Goes(c, "prep_package", FALSE,
            [l EXCEPT !.pkg = handle_runs_prep_package(l.seq.main_str, l.seq.full,
                                                       l.data, l.filename),
                      !.done = Append(l.done, "row")])
  /\ UNCHANGED <<projvars_but_log, rowvars, filevars, pmvars>>

\* A variant of FilesCreated that writes no file
FilesSkipped(c) ==
  /\ pc[c] = "files_created"
  /\ Goes(c, "files_created", FALSE, [loc[c] EXCEPT !.done = Append(@, "file")])
  /\ UNCHANGED <<projvars_but_log, rowvars, filevars, pmvars>>

\* CREATE NEW FILE: get_files_created
FilesCreated(c) ==
  /\ pc[c] = "files_created"
  /\ solutions' = solutions \cup {loc[c].filename}
  /\ Goes(c, "files_created", FALSE, [loc[c] EXCEPT !.done = Append(@, "file")])
  /\ UNCHANGED <<PROJ_START, NB, NB_NAME, SEQ_NOTATION, SEQ_SPARSE, COLS_WIDTH,
                 solutions_dir, readme, today, rowvars, filevars, pmvars>>

\* UPDATE config_cols_widths, CREATE NEW LINE and UPDATE INDEX up to lines.insert:
\* README.md is read and the new lines are built, or a missing marker raises
IndexRead(c) ==
  /\ pc[c] = "index_read"
  /\ \E l \in {loc[c]} :
     \E widths \in {UpdatedWidths(l.pkg.package_widths, l.config.COLS_WIDTH)} :
     \E change_old_lines \in {ChangeOldLines(l.pkg.package_widths, l.config.COLS_WIDTH)} :
     \E index \in {UpdateIndex(readme, l.config.NB, widths, change_old_lines,
                               NewEntryLine(l.config.NB, widths, l.pkg.package))} :
       IF index.err
       THEN Ends(c, [l EXCEPT !.change_old_lines = change_old_lines,
                              !.lines_read = readme], "TypeError")
       ELSE Goes(c, "index_read", FALSE,
                 [l EXCEPT !.widths = widths,
                           !.change_old_lines = change_old_lines,
                           !.lines_read = readme,
                           !.lines = index.lines])
  /\ UNCHANGED <<projvars_but_log, rowvars, filevars, pmvars>>

\* A variant of IndexWrite that builds the lines from README.md as it is when it
\* writes, as if the file were locked from the read to the write
IndexWriteLocked(c) ==
  /\ pc[c] = "index_write"
  /\ readme' = UpdateIndex(readme, loc[c].config.NB, loc[c].widths,
                           loc[c].change_old_lines,
                           NewEntryLine(loc[c].config.NB, loc[c].widths,
                                        loc[c].pkg.package)).lines
  /\ Goes(c, "index_write", FALSE, [loc[c] EXCEPT !.done = Append(@, "index")])
  /\ UNCHANGED <<PROJ_START, NB, NB_NAME, SEQ_NOTATION, SEQ_SPARSE, COLS_WIDTH,
                 solutions_dir, solutions, today, rowvars, filevars, pmvars>>

\* UPDATE INDEX: file.writelines(lines)
IndexWrite(c) ==
  /\ pc[c] = "index_write"
  /\ readme' = loc[c].lines
  /\ Goes(c, "index_write", FALSE, [loc[c] EXCEPT !.done = Append(@, "index")])
  /\ UNCHANGED <<PROJ_START, NB, NB_NAME, SEQ_NOTATION, SEQ_SPARSE, COLS_WIDTH,
                 solutions_dir, solutions, today, rowvars, filevars, pmvars>>

\* _handle_runs_close: COLS_WIDTH of config_index.py replaced by package_widths
Close(c) ==
  /\ pc[c] = "close"
  /\ COLS_WIDTH' = loc[c].widths
  /\ Ends(c, [loc[c] EXCEPT !.done = Append(@, "widths")], "")
  /\ UNCHANGED <<PROJ_START, NB, NB_NAME, SEQ_NOTATION, SEQ_SPARSE,
                 solutions_dir, solutions, readme, today, rowvars, filevars, pmvars>>

\* The run is cut short between two steps: the kernel is interrupted or stopped.
\* Before the directory scan the run has changed nothing and has nothing to leave.
Interrupt(c) ==
  /\ pc[c] \notin {"idle", "prep_seq"}
  /\ Ends(c, loc[c], "KeyboardInterrupt")
  /\ UNCHANGED <<projvars_but_log, rowvars, filevars, pmvars>>

\* A day passes between two submissions
TickIdle ==
  /\ Active = {}
  /\ Tick

\* An initialized project without entries
InitSteps ==
  /\ PROJ_START = StrfTime(FirstDay)
  /\ NB = 0
  /\ NB_NAME = NB_NAME_DEFAULT
  /\ SEQ_NOTATION \in {0, 1}
  /\ SEQ_SPARSE \in {0, 1}
  /\ COLS_WIDTH = COLS_WIDTH_DEFAULT
  /\ solutions_dir = TRUE
  /\ solutions = {}
  /\ readme = ReadmeTemplate
  /\ today = FirstDay
  /\ log = <<>>
  /\ row_data = EmptyRow
  /\ row_widths = NoWidths
  /\ row_line = None
  /\ row_results = None
  /\ file_title = <<>>
  /\ file_seq_full = <<>>
  /\ file_name = None
  /\ PackageNew
  /\ NoRun

\* One caller: the runs follow one another
NextSteps ==
  \/ \E data \in Entries : Begin(1, data)
  \/ PrepSeq(1)
  \/ PrepIndexRead(1)
  \/ PrepIndexWrite(1)
  \/ PrepPackage(1)
  \/ FilesCreated(1)
  \/ IndexRead(1)
  \/ IndexWrite(1)
  \/ Close(1)
  \/ Interrupt(1)
  \/ TickIdle

SpecSteps == InitSteps /\ [][NextSteps]_vars

(***************************************************************************)
(* Two callers submit one entry each against the same working directory,   *)
(* and their runs interleave step by step.                                 *)
(***************************************************************************)
\* The entry a caller submits: the two callers submit different entries
EntryOf(c) ==
  CHOOSE e \in Entries : (c = 1) <=> (e.title = <<"A", "-", "b">>)

RaceBegin(c) ==
  /\ Len(log) + Cardinality(Active) < Cardinality(Callers)
  /\ Begin(c, EntryOf(c))

\* An initialized project without entries, gap filling switched off
InitRace ==
  /\ PROJ_START = StrfTime(FirstDay)
  /\ NB = 0
  /\ NB_NAME = NB_NAME_DEFAULT
  /\ SEQ_NOTATION \in {0, 1}
  /\ SEQ_SPARSE = 0
  /\ COLS_WIDTH = COLS_WIDTH_DEFAULT
  /\ solutions_dir = TRUE
  /\ solutions = {}
  /\ readme = ReadmeTemplate
  /\ today = FirstDay
  /\ log = <<>>
  /\ row_data = EmptyRow
  /\ row_widths = NoWidths
  /\ row_line = None
  /\ row_results = None
  /\ file_title = <<>>
  /\ file_seq_full = <<>>
  /\ file_name = None
  /\ PackageNew
  /\ NoRun

NextRace ==
  \E c \in Callers :
    \/ RaceBegin(c)
    \/ PrepSeq(c)
    \/ PrepPackage(c)
    \/ FilesCreated(c)
    \/ IndexRead(c)
    \/ IndexWrite(c)
    \/ Close(c)

SpecRace == InitRace /\ [][NextRace]_vars

(***************************************************************************)
(* The same project with entries whose title holds a pipe, which the entry *)
(* form accepts as it accepts every text that is not blank.                *)
(***************************************************************************)
PipeEntries ==
  { [title |-> <<"A", "|", "b">>, url |-> <<"u">>, site |-> <<"S", "i", "t", "e">>,
     difficulty |-> <<"E", "a", "s", "y">>, nb |-> <<"T", "B", "D">>],
    [title |-> <<"T", "w", "o", " ", "S", "u", "m", "!">>, url |-> <<"u">>,
     site |-> <<"L", "e", "e", "t", "C", "o", "d", "e">>,
     difficulty |-> <<"M", "e", "d", "i", "u", "m", "-", "H", "a", "r", "d">>,
     nb |-> <<"n">>] }

NextTitles ==
  \/ Start
  \/ \E data \in PipeEntries : Run(data)
  \/ Tick

SpecTitles == Init /\ [][NextTitles]_vars

(***************************************************************************)
(* utils_runs.py, on its own: a row is rendered by get_target_line_updated *)
(* and the rendered line is read by get_target_line_dict, as the rewrite   *)
(* of the index table does with every line.                                *)
(***************************************************************************)
\* The cell values a row is built from, all of them values the entry form accepts:
\* plain text, text with a pipe, text with a leading blank, text with a blank inside
Titles == { <<"a", "b">>, <<"a", "|", "b">>, <<" ", "a">> }
Sites == { <<"S", "i", "t", "e">>, <<"x", " ", "y">> }
Notes == { <<"n">>, <<"T", "B", "D">> }
\* The padding added to the length of a value: none, or the 2 of handle_runs_prep_package
Paddings == {0, 2}

RowsData ==
  { [day |-> <<"0", "0", "1">>, title |-> t, solution |-> <<"s">>, site |-> s,
     difficulty |-> <<"E", "a", "s", "y">>, nb |-> n] :
       t \in Titles, s \in Sites, n \in Notes }

InitRow ==
  /\ PROJ_START = <<>>
  /\ NB \in {0, 1}
  /\ NB_NAME = NB_NAME_DEFAULT
  /\ SEQ_NOTATION = 0
  /\ SEQ_SPARSE = 0
  /\ COLS_WIDTH = COLS_WIDTH_DEFAULT
  /\ solutions_dir = TRUE
  /\ solutions = {}
  /\ readme = ReadmeTemplate
  /\ today = FirstDay
  /\ log = <<>>
  /\ row_data \in RowsData
  /\ \E pad \in Paddings : row_widths = [k \in Range(Keys) |-> Len(row_data[k]) + pad]
  /\ row_line = None
  /\ row_results = None
  /\ file_title = <<>>
  /\ file_seq_full = <<>>
  /\ file_name = None
  /\ PackageNew
  /\ NoRun

\* line = get_target_line_updated(False, config, package, data)
Render ==
  /\ row_line = None
  /\ row_line' = Some(get_target_line_updated(FALSE, NB, row_widths, row_data))
  /\ UNCHANGED <<projvars, row_data, row_widths, row_results, filevars, pmvars, stepvars>>

\* results = get_target_line_dict(config.get('NB'), line)
Parse ==
  /\ row_line # None
  /\ row_results = None
  /\ row_results' = Some(get_target_line_dict(NB, row_line[1]))
  /\ UNCHANGED <<projvars, row_data, row_widths, row_line, filevars, pmvars, stepvars>>

NextRow == Render \/ Parse

SpecRow == InitRow /\ [][NextRow]_vars

(***************************************************************************)
(* _handle_runs_prep_file, on its own: the file name of an entry, for the  *)
(* titles the entry form accepts and the sequence ids a run computes.      *)
(***************************************************************************)
MaxTitle == 3
TitleChars == {"A", "b", "1", " ", "-", "!", "_", TAB}
RECURSIVE SeqsUpTo(_, _)
\* The sequences over S of length 0..n
SeqsUpTo(S, n) ==
  IF n = 0 THEN {<<>>}
  ELSE LET shorter == SeqsUpTo(S, n - 1)
       IN shorter \cup {Append(t, c) : t \in shorter, c \in S}
\* validate_form_data accepts a title that is not empty after strip() and passes it
\* on as typed
FileTitles ==
  {t \in SeqsUpTo(TitleChars, MaxTitle) : Strip(t) # <<>>}
    \cup {<<"T", "w", "o", " ", "S", "u", "m", "!", "!", " ", "(", "E", "a", "s", "y", ")">>}
\* seq_next_full_str: a day number with its suffix, or '' after a later entry
FileSeqs == {<<"0", "0", "1", "_", "0", "1">>, <<>>}

InitFile ==
  /\ PROJ_START = <<>>
  /\ NB = 0
  /\ NB_NAME = NB_NAME_DEFAULT
  /\ SEQ_NOTATION = 0
  /\ SEQ_SPARSE = 0
  /\ COLS_WIDTH = COLS_WIDTH_DEFAULT
  /\ solutions_dir = TRUE
  /\ solutions = {}
  /\ readme = ReadmeTemplate
  /\ today = FirstDay
  /\ log = <<>>
  /\ row_data = EmptyRow
  /\ row_widths = NoWidths
  /\ row_line = None
  /\ row_results = None
  /\ file_title \in FileTitles
  /\ file_seq_full \in FileSeqs
  /\ file_name = None
  /\ PackageNew
  /\ NoRun

\* filename = _handle_runs_prep_file(data['title'], seq_next_full_str)
PrepFile ==
  /\ file_name = None
  /\ file_name' = Some(handle_runs_prep_file(file_title, file_seq_full))
  /\ UNCHANGED <<projvars, rowvars, file_title, file_seq_full, pmvars, stepvars>>

NextFile == PrepFile

SpecFile == InitFile /\ [][NextFile]_vars

(***************************************************************************)
(* utils_package.py, on its own: a PackageManager under update_value and   *)
(* reset calls.                                                            *)
(***************************************************************************)
MaxCalls == 4
DictNames == {"package", "package_widths", "package_col_widths"}
\* The keys and the values update_value is called with: keys of both layouts, texts
\* for 'package' and numbers for the widths
UpdateKeys == {"day", "solution", "site_index"}
UpdateValues(dict_name) == IF dict_name = "package" THEN {<<"0", "0", "1">>} ELSE {5}
\* The lists reset is called with
ResetLists == {<<"package">>, <<"package_widths">>, <<"package", "package_col_widths">>}

InitPackage ==
  /\ PROJ_START = <<>>
  /\ NB = 0
  /\ NB_NAME = NB_NAME_DEFAULT
  /\ SEQ_NOTATION = 0
  /\ SEQ_SPARSE = 0
  /\ COLS_WIDTH = COLS_WIDTH_DEFAULT
  /\ solutions_dir = TRUE
  /\ solutions = {}
  /\ readme = ReadmeTemplate
  /\ today = FirstDay
  /\ log = <<>>
  /\ row_data = EmptyRow
  /\ row_widths = NoWidths
  /\ row_line = None
  /\ row_results = None
  /\ file_title = <<>>
  /\ file_seq_full = <<>>
  /\ file_name = None
  /\ PackageNew
  /\ NoRun

\* update_value(dict_name, key, value): the dictionary object is changed in place, so
\* the change is seen through every reference to it
update_value(dict_name, key, value) ==
  /\ Len(pm_ops) < MaxCalls
  /\ IF dict_name \in DOMAIN pm_data /\ key \in DOMAIN pm_data[dict_name]
     THEN /\ pm_data' = [pm_data EXCEPT ![dict_name][key] = value]
          /\ pm_initial_state' =
               IF dict_name \in pm_alias
               THEN [pm_initial_state EXCEPT ![dict_name][key] = value]
               ELSE pm_initial_state
          /\ pm_ops' = Append(pm_ops, "update_value")
     ELSE /\ pm_ops' = Append(pm_ops, "KeyError")
          /\ UNCHANGED <<pm_data, pm_initial_state>>
  /\ UNCHANGED <<projvars, rowvars, filevars, pm_alias, stepvars>>

\* reset(): self._data = self._initial_state.copy(), a copy of the outer dictionary
\* that holds the inner dictionaries of _initial_state themselves
reset ==
  /\ Len(pm_ops) < MaxCalls
  /\ pm_data' = pm_initial_state
  /\ pm_alias' = DOMAIN pm_initial_state
  /\ pm_ops' = Append(pm_ops, "reset")
  /\ UNCHANGED <<projvars, rowvars, filevars, pm_initial_state, stepvars>>

\* The dictionary d with the name k bound to v, k new or not
Bind(d, k, v) == [x \in DOMAIN d \cup {k} |-> IF x = k THEN v ELSE d[x]]
RECURSIVE ResetNames(_, _, _)
\* The loop of reset(dict_names): each name in turn gets a copy of its initial
\* dictionary, up to the first name _initial_state does not have
ResetNames(dict_names, data_loc, alias) ==
  IF dict_names = <<>> THEN [data |-> data_loc, alias |-> alias, raised |-> FALSE]
  ELSE IF Head(dict_names) \in DOMAIN pm_initial_state
    THEN ResetNames(Tail(dict_names),
                    Bind(data_loc, Head(dict_names), pm_initial_state[Head(dict_names)]),
                    alias \ {Head(dict_names)})
  ELSE [data |-> data_loc, alias |-> alias, raised |-> TRUE]

\* reset(dict_names)
reset_names(dict_names) ==
  /\ Len(pm_ops) < MaxCalls
  /\ \E r \in {ResetNames(dict_names, pm_data, pm_alias)} :
       /\ pm_data' = r.data
       /\ pm_alias' = r.alias
       /\ pm_ops' = Append(pm_ops, IF r.raised THEN "KeyError" ELSE "reset_names")
  /\ UNCHANGED <<projvars, rowvars, filevars, pm_initial_state, stepvars>>

NextPackage ==
  \/ \E dict_name \in DictNames, key \in UpdateKeys :
       \E value \in UpdateValues(dict_name) : update_value(dict_name, key, value)
  \/ reset
  \/ \E dict_names \in ResetLists : reset_names(dict_names)

SpecPackage == InitPackage /\ [][NextPackage]_vars

(***************************************************************************)
(* Reading the state: the last run and the index table.                    *)
(***************************************************************************)
Last == log[Len(log)]
\* The last submission completed and README.md was not replaced since
RanOk == Len(log) > 0 /\ Last.status = "ok" /\ Last.proj_start = PROJ_START
\* The same, in an initialized project
RanOkStarted == RanOk /\ PROJ_START # <<>>
\* The lines strictly between the two markers
TableOf(lines) ==
  SubSeq(lines, LastLineWith(lines, INDEX_START) + 2, LastLineWith(lines, INDEX_END))
\* The cells of a line: the texts between the pipes, the padding trimmed
CellsOf(line) ==
  LET parts == Split(line, "|")
  IN [i \in 1..(Len(parts) - 2) |-> Strip(parts[i + 1])]
\* A placeholder row: a day and nothing else
IsPlaceholder(line) ==
  LET cells == CellsOf(line)
  IN Len(cells) > 1 /\ cells[1] # <<>> /\ \A i \in 2..Len(cells) : cells[i] = <<>>
Placeholders(lines) ==
  Cardinality({i \in 1..Len(TableOf(lines)) : IsPlaceholder(TableOf(lines)[i])})
\* The line is what the formatter renders at these widths
RenderedAt(line, is_second_line, widths) ==
  line = get_target_line_updated(is_second_line, NB, widths, get_target_line_dict(NB, line))
\* The row of the newest entry: the line right before the end marker
NewestRow == readme[LastLineWith(readme, INDEX_END)]
\* The value a skipped sequence value is shown as
SeqStr(v) == IF SEQ_NOTATION = 0 THEN ZeroPad(v, 3) ELSE StrfTime(v)

(***************************************************************************)
(* C1: no step lowers a persisted column width: for every column,          *)
(* COLS_WIDTH after a run (or any other request) is at least what it was   *)
(* before.                                                                 *)
(***************************************************************************)
C1_WidthsNeverShrink ==
  [][\A k \in Range(Keys) : COLS_WIDTH'[k] >= COLS_WIDTH[k]]_vars
\* A completed run whose entry needed less than a configured width, and one column grew
C1_Witness ==
  /\ RanOk
  /\ \E k \in Range(Keys) : Last.package_widths[k] < Last.widths_before[k]
  /\ \E k \in Range(Keys) : COLS_WIDTH[k] > Last.widths_before[k]

(***************************************************************************)
(* C2: in numeric mode, with the start date D0 and today = D0 + k days,    *)
(* the main sequence value of a run that is not a same-day resubmission is *)
(* k + 1 zero-padded to 3 digits, whatever the number of stored entries,   *)
(* zero included.                                                          *)
(***************************************************************************)
FirstOfDay(i) == \A j \in 1..(i - 1) : log[j].status = "ok" => log[j].day # log[i].day
C2_MainIsDayNumber ==
  \A i \in 1..Len(log) :
    ( /\ log[i].status = "ok"
      /\ log[i].seq_notation = 0
      /\ StrpTime(log[i].proj_start) # -1
      /\ log[i].day >= StrpTime(log[i].proj_start)
      /\ FirstOfDay(i) )
    => log[i].seq_main_str = ZeroPad(log[i].day - StrpTime(log[i].proj_start) + 1, 3)

(***************************************************************************)
(* C3: of two entries submitted one after the other on the same day of an  *)
(* initialized project, the first being the first entry of that day, the   *)
(* first gets suffix 01 and the second the same main value with suffix 02. *)
(***************************************************************************)
C3_SameDaySuffix ==
  \A i \in 1..(Len(log) - 1) :
    ( /\ log[i].status = "ok" /\ log[i + 1].status = "ok"
      /\ log[i].day = log[i + 1].day
      /\ log[i].proj_start # <<>> /\ log[i + 1].proj_start = log[i].proj_start
      /\ FirstOfDay(i) )
    => /\ log[i].seq_full = log[i].seq_main_str \o <<"_", "0", "1">>
       /\ log[i + 1].seq_full = log[i].seq_main_str \o <<"_", "0", "2">>

(***************************************************************************)
(* C4: in sparse mode, a run whose previous main value p and next main     *)
(* value n have n - p > 1 adds exactly n - p - 1 placeholder rows, for     *)
(* p+1 .. n-1 in ascending order, every data column blank, directly before *)
(* the row of the new entry, which is directly before the end marker.      *)
(***************************************************************************)
C4_GapRows ==
  ( /\ RanOk /\ SEQ_SPARSE = 1
    /\ Last.seq_last # None
    /\ Last.seq_next[1] - Last.seq_last[1] > 1 )
  => LET p == Last.seq_last[1]
         n == Last.seq_next[1]
         before == TableOf(Last.readme_before)
         after == TableOf(readme)
     IN /\ Len(after) = Len(before) + (n - p)
        /\ Len(readme) = Len(Last.readme_before) + (n - p)
        /\ Placeholders(readme) = Placeholders(Last.readme_before) + (n - p - 1)
        /\ \A j \in 1..(n - p - 1) :
             /\ IsPlaceholder(after[Len(before) + j])
             /\ CellsOf(after[Len(before) + j])[1] = SeqStr(p + j)
        /\ after[Len(after)] = NewestRow
        /\ CellsOf(NewestRow)[1] = Last.seq_main_str
        /\ ~IsPlaceholder(NewestRow)
\* A run that skipped at least two values
C4_Witness ==
  /\ RanOk /\ SEQ_SPARSE = 1
  /\ Last.seq_last # None
  /\ Last.seq_next[1] - Last.seq_last[1] > 2
  /\ Placeholders(readme) >= 2

(***************************************************************************)
(* C5: a run adds no placeholder row and exactly one line, the row of the  *)
(* new entry, between the markers when SEQ_SPARSE = 0, or the gap is at    *)
(* most one unit, or there is no previous entry.                           *)
(***************************************************************************)
C5_NoGapRows ==
  ( /\ RanOk
    /\ \/ SEQ_SPARSE = 0
       \/ Last.seq_last = None
       \/ Last.seq_next[1] - Last.seq_last[1] <= 1 )
  => /\ Len(TableOf(readme)) = Len(TableOf(Last.readme_before)) + 1
     /\ Len(readme) = Len(Last.readme_before) + 1
     /\ Placeholders(readme) = Placeholders(Last.readme_before)
     /\ ~IsPlaceholder(NewestRow)
     /\ CellsOf(NewestRow)[1] = Last.seq_main_str
\* A dense-mode run over a gap of more than one unit
C5_Witness ==
  /\ RanOk /\ SEQ_SPARSE = 0
  /\ Last.seq_last # None
  /\ Last.seq_next[1] - Last.seq_last[1] > 1

(***************************************************************************)
(* C7, as stated: the Day cell of the row appended for a new entry is the  *)
(* fullSequenceId of the entry, the value that prefixes its file name.     *)
(***************************************************************************)
C7_DayIsFullSequenceId ==
  RanOkStarted => /\ CellsOf(NewestRow)[1] = Last.seq_full
           /\ Slice(Last.filename, 0, Len(Last.seq_full)) = Last.seq_full
(***************************************************************************)
(* C7, amended: the Day cell of the row appended for a new entry is the    *)
(* main sequence value alone, not the fullSequenceId; the file name of the *)
(* entry starts with the fullSequenceId derived in the same run and an     *)
(* underscore.                                                             *)
(***************************************************************************)
C7_DayIsMainSequence ==
  RanOk => /\ CellsOf(NewestRow)[1] = Last.seq_main_str
           /\ CellsOf(NewestRow)[1] # Last.seq_full
           /\ Slice(Last.filename, 0, Len(Last.seq_full) + 1) = Last.seq_full \o <<"_">>
\* A completed run whose fullSequenceId is the main value, an underscore and a suffix
C7_Witness ==
  /\ RanOk
  /\ Len(Last.seq_full) = Len(Last.seq_main_str) + 3
  /\ Last.filename \in solutions

(***************************************************************************)
(* C8: in every run in which a column of the new entry needs more than the *)
(* configured width, that width is raised and every line that was in the   *)
(* table (header, separator, rows) is rendered again at the new widths.    *)
(***************************************************************************)
C8_GrowthRewritesAll ==
  ( /\ RanOkStarted
    /\ \E k \in Range(Keys) : Last.package_widths[k] > Last.widths_before[k] )
  => /\ \A k \in Range(Keys) :
          Last.package_widths[k] > Last.widths_before[k]
            => COLS_WIDTH[k] = Last.package_widths[k]
     /\ \A i \in 1..(Len(TableOf(readme)) - 1) :
          RenderedAt(TableOf(readme)[i], i = 2, COLS_WIDTH)

(***************************************************************************)
(* C9: after every completed run every line between the markers is         *)
(* rendered at the persisted widths: the lines have one length, every cell *)
(* is padded to the width of its column, the separator with dashes.        *)
(***************************************************************************)
C9_TableAtPersistedWidths ==
  RanOkStarted =>
    \A i \in 1..Len(TableOf(readme)) :
      /\ RenderedAt(TableOf(readme)[i], i = 2, COLS_WIDTH)
      /\ Len(TableOf(readme)[i]) = Len(TableOf(readme)[1])

(***************************************************************************)
(* C10: once the project is initialized, the persisted width of every      *)
(* column is at least the length of every cell in that column, the header  *)
(* cell included.                                                          *)
(***************************************************************************)
C10_WidthCoversCells ==
  PROJ_START # <<>> =>
    \A i \in 1..Len(TableOf(readme)) :
      \A c \in 1..Len(RowKeys(NB)) :
        c <= Len(CellsOf(TableOf(readme)[i]))
          => Len(CellsOf(TableOf(readme)[i])[c]) <= COLS_WIDTH[RowKeys(NB)[c]]
(***************************************************************************)
(* C6: for every mapping of the enabled columns to cell contents and every *)
(* set of widths that holds each value, reading the rendered row with      *)
(* get_target_line_dict gives back the original contents, key by key.      *)
(***************************************************************************)
C6_RoundTrip ==
  row_results # None =>
    \A i \in 1..Len(RowKeys(NB)) :
      row_results[1][RowKeys(NB)[i]] = row_data[RowKeys(NB)[i]]
(***************************************************************************)
(* C11: after every completed run the line right before the end marker is  *)
(* the row of the entry submitted in that run, rendered at the persisted   *)
(* widths, whether or not rows were rewritten or placeholder rows added.   *)
(***************************************************************************)
\* The cells of the row of the entry of the last run
LastEntryRow ==
  [day |-> Last.seq_main_str, title |-> Last.data.title,
   solution |-> SolutionLink(Last.filename), site |-> Last.data.site,
   difficulty |-> Last.data.difficulty, nb |-> Last.data.nb]
C11_NewRowBeforeEndMarker ==
  RanOk =>
    /\ LastLineWith(readme, INDEX_END) >= 1
    /\ NewestRow = get_target_line_updated(FALSE, NB, COLS_WIDTH, LastEntryRow)
    /\ \A i \in 1..LastLineWith(Last.readme_before, INDEX_END) :
          CellsOf(readme[i]) # CellsOf(NewestRow)
\* A completed run that rewrote the existing lines and added placeholder rows
C11_Witness ==
  /\ RanOk
  /\ Last.change_old_lines = 1
  /\ Placeholders(readme) > Placeholders(Last.readme_before)
(***************************************************************************)
(* C12: a completed run keeps every data row that was in the index table,  *)
(* in the same place and order and with the same content in every cell;    *)
(* only the padding of a row may change.                                   *)
(***************************************************************************)
C12_RowsKeepContent ==
  RanOkStarted =>
    /\ Len(TableOf(readme)) > Len(TableOf(Last.readme_before))
    /\ \A i \in 3..Len(TableOf(Last.readme_before)) :
          CellsOf(TableOf(readme)[i]) = CellsOf(TableOf(Last.readme_before)[i])
(***************************************************************************)
(* C13: in an initialized project every line of the index table (header,   *)
(* separator, entry rows, placeholder rows) has exactly 5 cells when       *)
(* NB = 0 and exactly 6 cells when NB = 1.                                 *)
(***************************************************************************)
C13_CellCount ==
  PROJ_START # <<>> =>
    \A i \in 1..Len(TableOf(readme)) :
      Len(CellsOf(TableOf(readme)[i])) = Len(RowKeys(NB))
(***************************************************************************)
(* C14: a run with SEQ_NOTATION other than 0 and 1 ends with a ValueError  *)
(* and leaves the solutions directory, README.md and the configuration as  *)
(* they were, whether the solutions directory is empty or not.             *)
(***************************************************************************)
C14_InvalidNotationIsFatal ==
  [][(Len(log') = Len(log) + 1 /\ SEQ_NOTATION \notin {0, 1})
       => /\ log'[Len(log')].raised = "ValueError"
          /\ UNCHANGED <<solutions_dir, solutions, readme, COLS_WIDTH, PROJ_START,
                         NB, NB_NAME, SEQ_NOTATION, SEQ_SPARSE>>]_vars
\* Such a run was made with an entry file in the solutions directory
C14_Witness ==
  /\ Len(log) > 0
  /\ Last.seq_notation \notin {0, 1}
  /\ Last.files_before # {}
  /\ Last.raised = "ValueError"
(***************************************************************************)
(* C15: validation of the project state raises on a contradictory state,   *)
(* an empty solutions directory with a start date set or entry files with  *)
(* no start date; it does not report such a state as a first run or a      *)
(* regular run.                                                            *)
(***************************************************************************)
Contradictory ==
  \/ solutions_dir /\ solutions = {} /\ PROJ_START # <<>>
  \/ solutions_dir /\ solutions # {} /\ PROJ_START = <<>>
C15_ContradictionRaises == Contradictory => ValidateRaises
(***************************************************************************)
(* C16: a run of an initialized project against a README.md that lacks the *)
(* start marker or the end marker never completes: it ends with an error,  *)
(* whatever SEQ_SPARSE is and whether or not rows need rewriting.          *)
(***************************************************************************)
C16_MissingMarkerIsFatal ==
  \A i \in 1..Len(log) :
    ( /\ log[i].proj_start # <<>>
      /\ \/ LastLineWith(log[i].readme_before, INDEX_START) = -1
         \/ LastLineWith(log[i].readme_before, INDEX_END) = -1 )
    => log[i].status = "error"
(***************************************************************************)
(* C17: a run in which the main value of the latest stored entry is        *)
(* greater than the value computed for today, against a README.md that has *)
(* its markers, does not raise: it writes an entry file, appends a row for *)
(* today's value before the end marker and persists the widths.            *)
(***************************************************************************)
Anomalous(r) == r.seq_last # None /\ r.seq_next # None /\ r.seq_last[1] > r.seq_next[1]
C17_AnomalyCompletes ==
  [][( /\ Len(log') = Len(log) + 1
       /\ Anomalous(log'[Len(log')])
       /\ LastLineWith(readme, INDEX_START) # -1
       /\ LastLineWith(readme, INDEX_END) # -1 )
     => /\ log'[Len(log')].raised = ""
        /\ log'[Len(log')].filename \in solutions'
        /\ Len(readme') = Len(readme) + 1
        /\ CellsOf(readme'[LastLineWith(readme', INDEX_END)])[1]
             = log'[Len(log')].seq_main_str
        /\ \A k \in Range(Keys) :
             COLS_WIDTH'[k] = Max(COLS_WIDTH[k], log'[Len(log')].package_widths[k])]_vars
\* An anomalous run completed
C17_Witness ==
  /\ Len(log) > 0
  /\ Anomalous(Last)
  /\ Last.status = "ok"
  /\ Last.filename \in solutions
C19_StartInitializes == PROJ_START = <<>> => StartReturns = "1"
(***************************************************************************)
(* C20: for every title the entry file name is the full sequence id, an    *)
(* underscore, the slug and '.md', where the slug is the title lowercased, *)
(* with every character other than a-z, 0-9, blank and hyphen removed and  *)
(* every blank and hyphen replaced by an underscore; the slug holds only   *)
(* lowercase letters, digits and underscores.                              *)
(***************************************************************************)
SlugAllowed(c) == c \in Range(LowerCase) \/ IsDigit(c) \/ c = " " \/ c = "-"
SlugOf(t) ==
  LET lowered == [i \in 1..Len(t) |-> Lower(t[i])]
      kept == SelectSeq(lowered, SlugAllowed)
  IN [i \in 1..Len(kept) |-> IF kept[i] \in {" ", "-"} THEN "_" ELSE kept[i]]
C20_FilenameIsSlug ==
  file_name # None =>
    /\ file_name[1] = file_seq_full \o <<"_">> \o SlugOf(file_title) \o <<".", "m", "d">>
    /\ \A i \in 1..Len(SlugOf(file_title)) :
         \/ SlugOf(file_title)[i] \in Range(LowerCase)
         \/ IsDigit(SlugOf(file_title)[i])
         \/ SlugOf(file_title)[i] = "_"
(***************************************************************************)
(* C28: an entry submission is processed only on an initialized project;   *)
(* on a project without a start date a submission creates no entry file    *)
(* and changes neither README.md nor the configuration.                    *)
(***************************************************************************)
C28_RunNeedsStart ==
  [][(PROJ_START = <<>> /\ Len(log') = Len(log) + 1)
     => UNCHANGED <<solutions, readme, COLS_WIDTH, PROJ_START, NB, NB_NAME,
                    SEQ_NOTATION, SEQ_SPARSE>>]_vars
(***************************************************************************)
(* C27: with NB = 0 the nb field of an entry is not rendered (the row has  *)
(* five cells) and does not count for width: with any other nb value the   *)
(* same run would persist the same widths and take the same decision on    *)
(* rewriting the existing rows.                                            *)
(***************************************************************************)
NbValues == {e.nb : e \in Entries}
WidthsWithNb(r, n) ==
  handle_runs_prep_package(r.seq_main_str, r.seq_full, [r.data EXCEPT !.nb = n],
                           r.filename).package_widths
C27_NbNotCounted ==
  (RanOk /\ NB = 0) =>
    /\ Len(CellsOf(NewestRow)) = 5
    /\ \A n \in NbValues :
         /\ UpdatedWidths(WidthsWithNb(Last, n), Last.widths_before) = COLS_WIDTH
         /\ ChangeOldLines(WidthsWithNb(Last, n), Last.widths_before)
              = Last.change_old_lines
(***************************************************************************)
(* C30: right after a reset() the PackageManager is in the state of a      *)
(* freshly constructed one: the dictionaries 'package' and                 *)
(* 'package_widths', the same keys in each, every value at its default;    *)
(* also for the second and later resets.                                   *)
(***************************************************************************)
C30_ResetIsFresh ==
  (pm_ops # <<>> /\ pm_ops[Len(pm_ops)] = "reset") => pm_data = PackageData
(***************************************************************************)
(* C21: after any sequence of runs the lexicographically last file name in *)
(* the solutions directory is that of the most recently created entry;     *)
(* every numeric main value has exactly 3 digits and every suffix exactly  *)
(* 2 digits, also beyond day 999 of the project.                           *)
(***************************************************************************)
C21_LastNameIsNewest ==
  RanOk =>
    /\ LastSorted(solutions) = Last.filename
    /\ Last.seq_notation = 0 =>
         /\ Len(Last.seq_main_str) = 3
         /\ Len(Last.seq_full) = 6
(***************************************************************************)
(* C22: in an initialized project whose runs all completed, a run that     *)
(* took the anomalous branch included, a further run can derive its        *)
(* sequence identifier without error, and every entry file was created     *)
(* with a non-empty full sequence ID.                                      *)
(***************************************************************************)
AllCompleted ==
  /\ PROJ_START # <<>>
  /\ SEQ_NOTATION \in {0, 1}
  /\ \A i \in 1..Len(log) : log[i].status = "ok" /\ log[i].proj_start = PROJ_START
C22_NextRunDerives ==
  AllCompleted =>
    /\ ~handle_runs_prep_seq(solutions, PROJ_START, SEQ_NOTATION, today).err
    /\ \A i \in 1..Len(log) : log[i].seq_full # <<>>
(***************************************************************************)
(* C23: when the day never decreases from one run to the next and is never *)
(* earlier than PROJ_START, every run that derives a full sequence ID      *)
(* derives one strictly greater, in (main value, suffix) order, than that  *)
(* of every earlier run: the anomalous branch is never taken, no two       *)
(* entries share an ID and no existing entry file is overwritten.          *)
(***************************************************************************)
\* The run got past the derivation of its sequence
Derived(r) == r.raised \in {"", "TypeError"}
MainValue(r) ==
  IF r.seq_notation = 0 THEN IntOf(r.seq_main_str) ELSE StrpTime(r.seq_main_str)
SuffixValue(r) == IntOf(SubSeq(r.seq_full, Len(r.seq_main_str) + 2, Len(r.seq_full)))
SeqBefore(r1, r2) ==
  \/ MainValue(r1) < MainValue(r2)
  \/ MainValue(r1) = MainValue(r2) /\ SuffixValue(r1) < SuffixValue(r2)
C23_SequenceIncreases ==
  \A j \in 1..Len(log) :
    Derived(log[j]) =>
      /\ ~Anomalous(log[j])
      /\ log[j].filename \notin log[j].files_before
      /\ \A i \in 1..(j - 1) : Derived(log[i]) => SeqBefore(log[i], log[j])
(***************************************************************************)
(* Reading the state of the step-by-step runs.                             *)
(***************************************************************************)
IsPrefix(s, t) == Len(s) <= Len(t) /\ s = SubSeq(t, 1, Len(s))
\* The runs in progress and the runs that ended, each with the steps it completed
RunsSeen ==
  {[done |-> loc[c].done, sparse |-> loc[c].config.SEQ_SPARSE,
    filename |-> loc[c].filename, ended |-> FALSE, raised |-> ""] : c \in Active}
    \cup {[done |-> log[i].done, sparse |-> log[i].seq_sparse,
           filename |-> log[i].filename, ended |-> TRUE, raised |-> log[i].raised] :
             i \in 1..Len(log)}
\* The orders of a whole run: gap filling is a step in sparse mode only, and there
\* only when an entry is already stored
OrdersOf(sparse, tail) ==
  {<<"sequence">> \o tail}
    \cup (IF sparse = 1 THEN {<<"sequence", "gaps">> \o tail} ELSE {})

HasSub(line, sub) ==
  \E k \in 0..(Len(line) - Len(sub)) : SubSeq(line, k + 1, k + Len(sub)) = sub
\* The rows of entries: the lines that hold a link into the solutions directory
EntryRows(lines) ==
  {lines[i] : i \in {j \in 1..Len(lines) :
                       HasSub(lines[j], SubSeq(SolutionLink(<<>>), 1, 21))}}
C25_RowsHaveFiles ==
  \A row \in EntryRows(readme) :
    \E f \in solutions : HasSub(row, SolutionLink(f))
\* A run was cut short after it rewrote the index and before it persisted the widths
C25_Witness ==
  /\ Len(log) > 0
  /\ Last.raised = "KeyboardInterrupt"
  /\ Last.done[Len(Last.done)] = "index"
  /\ EntryRows(readme) # {}
(***************************************************************************)
(* C26: in sparse mode, across any sequence of runs, runs cut short after  *)
(* the gap filling and before the entry file is written included, the      *)
(* index table holds at most one placeholder row for each sequence value   *)
(* and no placeholder row for a value that has an entry row.               *)
(***************************************************************************)
TableRows(lines) == {i \in 3..Len(TableOf(lines)) : TRUE}
C26_PlaceholdersOnce ==
  SEQ_SPARSE = 1 =>
    \A i \in TableRows(readme) :
      IsPlaceholder(TableOf(readme)[i]) =>
        \A j \in TableRows(readme) \ {i} :
          CellsOf(TableOf(readme)[j])[1] # CellsOf(TableOf(readme)[i])[1]
(***************************************************************************)
(* C29: two runs by two callers against the same working directory,        *)
(* interleaved step by step, can end in a corrupted state. When both runs  *)
(* scanned the same directory content they derive the same full sequence   *)
(* ID; when neither run read a README.md that held the row of the other,   *)
(* the README.md written last holds one entry row only, directly before    *)
(* the end marker, and the row of the other entry is lost; otherwise both  *)
(* rows are there.                                                         *)
(***************************************************************************)
BothReturned ==
  /\ Active = {}
  /\ Len(log) = 2
  /\ log[1].raised = "" /\ log[2].raised = ""
\* The index update of run r read a README.md that held the row of run q
Saw(r, q) == \E i \in 1..Len(r.lines_read) : HasSub(r.lines_read[i], SolutionLink(q.filename))
RowLost == \E i \in 1..2 : \A row \in EntryRows(readme) : ~HasSub(row, SolutionLink(log[i].filename))
C29_RaceCorrupts ==
  BothReturned =>
    /\ log[1].files_before = log[2].files_before => log[1].seq_full = log[2].seq_full
    /\ IF ~Saw(log[1], log[2]) /\ ~Saw(log[2], log[1])
       THEN /\ RowLost
            /\ EntryRows(readme) = {NewestRow}
       ELSE ~RowLost
\* Both runs returned with the same full sequence ID and one of the two rows is lost
C29_Witness ==
  /\ BothReturned
  /\ log[1].seq_full = log[2].seq_full
  /\ log[1].filename # log[2].filename
  /\ RowLost
====
